---- MODULE Spec2Model ----
(***************************************************************************)
(* PayMintt: the payments edge function (idempotency ledger + payment      *)
(* intake), the webhooks edge function (signed event ingestion, dedup,     *)
(* payment-status handlers) and the retry-webhooks edge function (retry    *)
(* sweep with exponential backoff).                                        *)
(*                                                                         *)
(* Every `await supabase...` of a handler is one step of the request that  *)
(* runs it: requests of one edge function interleave at these points.      *)
(* A store call never throws; it returns {data, error}.  A failing store   *)
(* call is a nondeterministic choice, limited by MaxFaults per behaviour.  *)
(***************************************************************************)
EXTENDS Integers, FiniteSets, Sequences

\* ---------------------------------------------------------------- bounds
\* Number of CreatePayment requests in one behaviour.
NumCalls == 3
\* Number of store failures and process crashes injected in one behaviour.
MaxFaults == 1

\* Number of webhook requests (deliveries by the sender) in one behaviour.
NumHooks == 2
\* Number of retry-webhooks invocations that can be running at the same time.
NumSweeps == 2
\* Number of times the clock advances in one behaviour.
MaxTicks == 2
\* The model follows a delivery up to this many attempts.
MaxAttempts == 6

Calls == 1..NumCalls
Hooks == 1..NumHooks
Sweeps == 1..NumSweeps
\* Idempotency-Key values with a row in the store.
Keys == {"K1", "K2"}
\* Idempotency-Key header values of the CreatePayment requests that are followed.
\* A request reads and writes only the rows of its own key (.eq("key",
\* idempotencyKey), payments.idempotency_key), so requests with different keys
\* share no state and the requests of one key are followed.
RequestKeys == {"K1"}
\* event_id values of the webhook payloads.
EventIds == {"evt_1", "evt_2", "evt_3", "evt_4"}
\* The events followed through the retry runs.
RetriedEventIds == {"evt_1", "evt_2"}
\* amount_cents of a request body; 0 stands for a missing or zero amount.
\* A request body is named by its amount: the body with amount 300 is the one
\* that asks for a currency outside the documented list.
Amounts == {-100, 0, 100, 200, 300}

\* Reconciliation: match runs, uploaded records, payments of the users.
NumRuns == 2
NumRecords == 2
MaxPayments == 2

Runs == 1..NumRuns
RecordIds == 1..NumRecords
Users == {"u1", "u2"}
ExternalIds == {"PAY_1", "PAY_2"}
RecordAmounts == {100, 200}

SupportedCurrencies == {"USD", "EUR", "GBP", "CAD"}

RequestOf(a) ==
  [amount_cents |-> a, currency |-> IF a = 300 THEN "XXX" ELSE "USD"]

VARIABLES
  \* ---- store (tables)
  idempotency_keys,  \* key -> row of table idempotency_keys
  payments,          \* set of rows of table payments
  transactions,      \* set of rows of table transactions
  audit_logs,        \* set of rows of table audit_logs written for payments
  \* ---- one CreatePayment request per element of Calls
  pc,                \* position of the request in the payments handler
  idempotencyKey,    \* its Idempotency-Key header
  requestBody,       \* its parsed body
  existingKey,       \* what its ledger lookup returned
  gatewayResponse,   \* the simulated gateway status it drew
  response,          \* the Response it returned
  \* ---- environment
  faults,            \* store failures and crashes injected so far
  \* ---- history (not read by the handlers)
  nwrites,           \* store rows written by each request
  firstReturned,     \* (key, amount) -> first response returned together with a release
  priorReturned,     \* per request: firstReturned of its (key, body) when it looked up
  \* ---- store (tables of the webhook functions)
  webhook_events,    \* set of rows of table webhook_events
  webhook_deliveries,\* rows of table webhook_deliveries, by id (BIGSERIAL)
  \* ---- one webhook request per element of Hooks
  hpc,               \* position of the request in the webhooks handler
  webhookData,       \* event_id of its payload
  delivery,          \* id of the delivery row it created (0: none, insert failed)
  hookStatus,        \* status code of the Response it returned
  signature,         \* its x-webhook-signature header
  payload,           \* its raw body (the event_id stands for the bytes)
  \* ---- one retry-webhooks invocation at a time per element of Sweeps
  spc,               \* position of the invocation in the retry-webhooks handler
  failedDeliveries,  \* the rows it selected and has not processed yet
  \* ---- environment
  webhookSecret,     \* WEBHOOK_SECRET ("": not configured)
  now,               \* the clock, in seconds
  ticks,             \* clock advances so far
  \* ---- history
  handlerRuns,       \* event_id -> number of processWebhookEvent calls
  \* ---- store (reconciliation)
  reconciliation_records,  \* rows of table reconciliation_records, by id
  recordUpdatePolicy,      \* row level security lets a user update their records
  \* ---- one runReconciliation call per element of Runs
  rpc,               \* position of the call in runReconciliation
  user,              \* the user it is signed in as ("": none)
  unmatchedRecords,  \* ids of the records it selected, in the order returned
  userPayments,      \* the payments it selected, in the order returned
  matchedWith,       \* per record dealt with: payment.id sent in its update (0: no match)
  matched,           \* its counters
  unmatched,
  lastRunSummary     \* the summary it displayed

payVars == <<idempotency_keys, payments, transactions, pc, idempotencyKey,
             requestBody, existingKey, gatewayResponse, response, faults,
             nwrites, firstReturned, priorReturned>>

hookVars == <<webhook_events, webhook_deliveries, hpc, webhookData, delivery,
              hookStatus, signature, payload, webhookSecret, spc, failedDeliveries, now, ticks, handlerRuns>>

reconVars == <<reconciliation_records, recordUpdatePolicy, rpc, user, unmatchedRecords,
               userPayments, matchedWith, matched, unmatched, lastRunSummary>>

\* The variables the webhook functions never write.
payOnlyVars == <<idempotency_keys, transactions, pc, idempotencyKey, requestBody,
                 existingKey, gatewayResponse, response, nwrites, firstReturned,
                 priorReturned>>

vars == <<payVars, hookVars, audit_logs, reconVars>>

\* ------------------------------------------------------------ values
\* JSON bodies: one record shape for a payment body, an error body and null.
NullBody == [kind |-> "null", id |-> 0, status |-> "", amount_cents |-> 0, error |-> ""]

ErrorBody(message) ==
  [kind |-> "error", id |-> 0, status |-> "", amount_cents |-> 0, error |-> message]

\* responseBody of a created payment.
PaymentBody(id, status, amount) ==
  [kind |-> "payment", id |-> id, status |-> status, amount_cents |-> amount, error |-> ""]

Response(code, body) == [status |-> code, body |-> body]

NoResponse == Response(0, NullBody)

\* A missing row of idempotency_keys (maybeSingle() gives data = null).
NoKeyRow ==
  [exists |-> FALSE, request_hash |-> <<>>, locked |-> FALSE,
   response |-> NullBody, status_code |-> 0]

\* sha256Hex(JSON.stringify(requestBody)): a digest, distinct for distinct bodies.
sha256Hex(body) == <<"sha256", body.amount_cents, body.currency>>

\* A validation that lets negative amounts through.
InvalidAmountZeroOnly(body) == body.amount_cents = 0

\* The body validation of the payments handler.
InvalidAmount(body) == body.amount_cents <= 0

\* ------------------------------------------------- idempotency ledger
\* Variant: the stored-response branch is missing (a replay proceeds).
LedgerDecisionNoReplay(row, requestHash) ==
  IF row.exists /\ row.request_hash # <<>> /\ row.request_hash # requestHash
    THEN "conflict"
  ELSE IF row.exists /\ row.locked
    THEN "processing"
  ELSE "proceed"

\* Variant: the locked check comes before the hash check.
LedgerDecisionLockedFirst(row, requestHash) ==
  IF row.exists /\ row.locked
    THEN "processing"
  ELSE IF row.exists /\ row.request_hash # <<>> /\ row.request_hash # requestHash
    THEN "conflict"
  ELSE IF row.exists /\ row.response # NullBody
    THEN "replay"
  ELSE "proceed"

\* Variant: the locked check is missing.
LedgerDecisionNoLockCheck(row, requestHash) ==
  IF row.exists /\ row.request_hash # <<>> /\ row.request_hash # requestHash
    THEN "conflict"
  ELSE IF row.exists /\ row.response # NullBody
    THEN "replay"
  ELSE "proceed"

\* The branch the payments handler takes for the row its lookup returned.
LedgerDecision(row, requestHash) ==
  IF row.exists /\ row.request_hash # <<>> /\ row.request_hash # requestHash
    THEN "conflict"
  ELSE IF row.exists /\ row.locked
    THEN "processing"
  ELSE IF row.exists /\ row.response # NullBody
    THEN "replay"
  ELSE "proceed"

\* The Response of a request that does not proceed.
EarlyResponse(row, decision) ==
  IF decision = "conflict" THEN Response(409, ErrorBody("Idempotency key conflict"))
  ELSE IF decision = "processing" THEN Response(409, ErrorBody("Request is being processed"))
  ELSE Response(IF row.status_code = 0 THEN 200 ELSE row.status_code, row.response)

\* upsert({key, endpoint, method, request_hash, locked: true, last_used_at}):
\* inserts the row, or on a key conflict overwrites the columns it names.
UpsertLock(row, requestHash) ==
  [row EXCEPT !.exists = TRUE, !.request_hash = requestHash, !.locked = TRUE]

\* update({response, status_code, locked: false}).eq("key", key)
StoreResponse(row, resp) ==
  IF row.exists
    THEN [row EXCEPT !.response = resp.body, !.status_code = resp.status, !.locked = FALSE]
    ELSE row

\* Variant: payments.idempotency_key without its UNIQUE constraint.
NoUniqueViolation(rows, key) == FALSE

\* payments.idempotency_key is UNIQUE: an insert of a second row with the key fails.
UniqueViolation(rows, key) == \E r \in rows : r.idempotency_key = key

\* The row the payments handler inserts; `id` stands for the generated uuid and
\* for the generated external_payment_id (both unique per request).
NewPayment(id, key, body) ==
  [id |-> id, idempotency_key |-> key, amount_cents |-> body.amount_cents,
   currency |-> body.currency, status |-> "pending", external_payment_id |-> id]

\* A row of audit_logs; `by` stands for the generated id of the row.
AuditRow(by, action, resource) ==
  [by |-> by, action |-> action, resource_id |-> resource]

\* Variant: a failed audit write is thrown into the caller's catch block.
AfterAuditThrow(error) == IF error THEN "throw" ELSE "continue"

\* What the handlers do with the result of rpc('create_audit_log'): the result
\* is not inspected (webhook handlers) or swallowed (payments handler).
AfterAudit(error) == "continue"

\* update({status, ...}).eq(column, value) on payments.
SetPaymentStatus(rows, id, status) ==
  {IF r.id = id THEN [r EXCEPT !.status = status] ELSE r : r \in rows}

\* ------------------------------------------------------------ Init
NoBody == [amount_cents |-> 0, currency |-> ""]

PayInit ==
  /\ idempotency_keys = [k \in Keys |-> NoKeyRow]
  /\ payments = {}
  /\ transactions = {}
  /\ audit_logs = {}
  /\ pc = [p \in Calls |-> "idle"]
  /\ idempotencyKey = [p \in Calls |-> "K1"]
  /\ requestBody = [p \in Calls |-> NoBody]
  /\ existingKey = [p \in Calls |-> NoKeyRow]
  /\ gatewayResponse = [p \in Calls |-> ""]
  /\ response = [p \in Calls |-> NoResponse]
  /\ faults = 0
  /\ nwrites = [p \in Calls |-> 0]
  /\ firstReturned = [k \in Keys, a \in Amounts |-> NoResponse]
  /\ priorReturned = [p \in Calls |-> NoResponse]

\* The webhook tables are empty and no webhook request or sweep has started.
HookIdle ==
  /\ webhook_events = {}
  /\ webhook_deliveries = <<>>
  /\ hpc = [h \in Hooks |-> "idle"]
  /\ webhookData = [h \in Hooks |-> "evt_1"]
  /\ delivery = [h \in Hooks |-> 0]
  /\ hookStatus = [h \in Hooks |-> 0]
  /\ signature = [h \in Hooks |-> <<>>]
  /\ payload = [h \in Hooks |-> ""]
  /\ spc = [s \in Sweeps |-> "idle"]
  /\ failedDeliveries = [s \in Sweeps |-> <<>>]
  /\ now = 0
  /\ ticks = 0
  /\ handlerRuns = [e \in EventIds |-> 0]

NoSummary == [total_records |-> -1, matched |-> 0, unmatched |-> 0]

\* No reconciliation run and no uploaded record.
ReconIdle ==
  /\ reconciliation_records = <<>>
  /\ recordUpdatePolicy = FALSE
  /\ rpc = [s \in Runs |-> "idle"]
  /\ user = [s \in Runs |-> ""]
  /\ unmatchedRecords = [s \in Runs |-> <<>>]
  /\ userPayments = [s \in Runs |-> <<>>]
  /\ matchedWith = [s \in Runs |-> <<>>]
  /\ matched = [s \in Runs |-> 0]
  /\ unmatched = [s \in Runs |-> 0]
  /\ lastRunSummary = [s \in Runs |-> NoSummary]

Init == PayInit /\ HookIdle /\ ReconIdle /\ webhookSecret = "whsec"

CanFail == faults < MaxFaults

\* Requests are numbered in arrival order, and the two valid amounts in a
\* supported currency are named in the order of their first use (they are
\* interchangeable otherwise).
Arrived == {q \in Calls : pc[q] # "idle"}

NextToArrive(p) == pc[p] = "idle" /\ \A q \in Calls : q < p => pc[q] # "idle"

FreshAmountOk(a) == a # 200 \/ \E q \in Arrived : requestBody[q].amount_cents = 100

Arrives(p, k, a) == NextToArrive(p) /\ FreshAmountOk(a)

\* ------------------------------------------- payments handler, step by step
\* A request arrives: header and body are read, the amount is validated.
RejectInvalid(p, k, a) ==
  /\ Arrives(p, k, a)
  /\ InvalidAmount(RequestOf(a))
  /\ pc' = [pc EXCEPT ![p] = "done"]
  /\ idempotencyKey' = [idempotencyKey EXCEPT ![p] = k]
  /\ requestBody' = [requestBody EXCEPT ![p] = RequestOf(a)]
  /\ response' = [response EXCEPT ![p] = Response(400, ErrorBody("Invalid amount"))]
  /\ UNCHANGED <<hookVars, reconVars, audit_logs, idempotency_keys, payments, transactions, existingKey,
                 gatewayResponse, faults, nwrites, firstReturned, priorReturned>>

\* The request passes validation and looks its key up; `row` is what the
\* select returned, and the branches that return at once are taken here.
CheckKeyWith(p, k, a, row) ==
  LET body == RequestOf(a)
      decision == LedgerDecision(row, sha256Hex(body))
  IN /\ Arrives(p, k, a)
     /\ ~InvalidAmount(body)
     /\ idempotencyKey' = [idempotencyKey EXCEPT ![p] = k]
     /\ requestBody' = [requestBody EXCEPT ![p] = body]
     /\ existingKey' = [existingKey EXCEPT ![p] = row]
     /\ priorReturned' = [priorReturned EXCEPT ![p] = firstReturned[k, a]]
     /\ IF decision = "proceed"
          THEN /\ pc' = [pc EXCEPT ![p] = "lock"]
               /\ UNCHANGED response
          ELSE /\ pc' = [pc EXCEPT ![p] = "done"]
               /\ response' = [response EXCEPT ![p] = EarlyResponse(row, decision)]
     /\ UNCHANGED <<hookVars, reconVars, audit_logs, idempotency_keys, payments, transactions, gatewayResponse,
                    nwrites, firstReturned>>

CheckKey(p, k, a) ==
  /\ CheckKeyWith(p, k, a, idempotency_keys[k])
  /\ UNCHANGED faults

\* The select fails: the error is logged and existingKey is null.
CheckKeyError(p, k, a) ==
  /\ CanFail
  /\ idempotency_keys[k].exists
  /\ CheckKeyWith(p, k, a, NoKeyRow)
  /\ faults' = faults + 1

\* Lock / upsert the idempotency key.
LockKey(p) ==
  /\ pc[p] = "lock"
  /\ idempotency_keys' =
       [idempotency_keys EXCEPT ![idempotencyKey[p]] =
          UpsertLock(@, sha256Hex(requestBody[p]))]
  /\ nwrites' = [nwrites EXCEPT ![p] = @ + 1]
  /\ pc' = [pc EXCEPT ![p] = "insert"]
  /\ UNCHANGED <<hookVars, reconVars, audit_logs, payments, transactions, idempotencyKey, requestBody, existingKey,
                 gatewayResponse, response, faults, firstReturned, priorReturned>>

\* lockError: the handler answers 500 without a lock.
LockKeyError(p) ==
  /\ pc[p] = "lock"
  /\ CanFail
  /\ faults' = faults + 1
  /\ pc' = [pc EXCEPT ![p] = "done"]
  /\ response' = [response EXCEPT ![p] = Response(500, ErrorBody("Internal server error"))]
  /\ UNCHANGED <<hookVars, reconVars, audit_logs, idempotency_keys, payments, transactions, idempotencyKey, requestBody,
                 existingKey, gatewayResponse, nwrites, firstReturned, priorReturned>>

\* Create payment.
InsertPayment(p) ==
  /\ pc[p] = "insert"
  /\ ~UniqueViolation(payments, idempotencyKey[p])
  /\ payments' = payments \cup {NewPayment(p, idempotencyKey[p], requestBody[p])}
  /\ nwrites' = [nwrites EXCEPT ![p] = @ + 1]
  /\ pc' = [pc EXCEPT ![p] = "gateway"]
  /\ UNCHANGED <<hookVars, reconVars, audit_logs, idempotency_keys, transactions, idempotencyKey, requestBody, existingKey,
                 gatewayResponse, response, faults, firstReturned, priorReturned>>

\* paymentError (constraint violation): the handler throws into its catch block.
InsertPaymentRejected(p) ==
  /\ pc[p] = "insert"
  /\ UniqueViolation(payments, idempotencyKey[p])
  /\ pc' = [pc EXCEPT ![p] = "catch"]
  /\ UNCHANGED <<hookVars, reconVars, audit_logs, idempotency_keys, payments, transactions, idempotencyKey, requestBody,
                 existingKey, gatewayResponse, response, faults, nwrites,
                 firstReturned, priorReturned>>

\* paymentError (store failure): the handler throws into its catch block.
InsertPaymentError(p) ==
  /\ pc[p] = "insert"
  /\ CanFail
  /\ faults' = faults + 1
  /\ pc' = [pc EXCEPT ![p] = "catch"]
  /\ UNCHANGED <<hookVars, reconVars, audit_logs, idempotency_keys, payments, transactions, idempotencyKey, requestBody,
                 existingKey, gatewayResponse, response, nwrites,
                 firstReturned, priorReturned>>

\* Simulate gateway result and update the payment with it.
GatewayUpdate(p, status) ==
  /\ pc[p] = "gateway"
  /\ gatewayResponse' = [gatewayResponse EXCEPT ![p] = status]
  /\ payments' = SetPaymentStatus(payments, p, status)
  /\ nwrites' = [nwrites EXCEPT ![p] = @ + 1]
  /\ pc' = [pc EXCEPT ![p] = "txn"]
  /\ UNCHANGED <<hookVars, reconVars, audit_logs, idempotency_keys, transactions, idempotencyKey, requestBody, existingKey,
                 response, faults, firstReturned, priorReturned>>

\* updateError: logged, the payment row keeps status pending.
GatewayUpdateError(p, status) ==
  /\ pc[p] = "gateway"
  /\ CanFail
  /\ faults' = faults + 1
  /\ gatewayResponse' = [gatewayResponse EXCEPT ![p] = status]
  /\ pc' = [pc EXCEPT ![p] = "txn"]
  /\ UNCHANGED <<hookVars, reconVars, audit_logs, idempotency_keys, payments, transactions, idempotencyKey, requestBody,
                 existingKey, response, nwrites, firstReturned, priorReturned>>

\* Record a transaction row.
InsertTransaction(p) ==
  /\ pc[p] = "txn"
  /\ transactions' = transactions \cup
       {[payment_id |-> p, amount |-> requestBody[p].amount_cents,
         status |-> gatewayResponse[p]]}
  /\ nwrites' = [nwrites EXCEPT ![p] = @ + 1]
  /\ pc' = [pc EXCEPT ![p] = "audit"]
  /\ UNCHANGED <<hookVars, reconVars, audit_logs, idempotency_keys, payments, idempotencyKey, requestBody, existingKey,
                 gatewayResponse, response, faults, firstReturned, priorReturned>>

\* txnError: logged.
InsertTransactionError(p) ==
  /\ pc[p] = "txn"
  /\ CanFail
  /\ faults' = faults + 1
  /\ pc' = [pc EXCEPT ![p] = "audit"]
  /\ UNCHANGED <<hookVars, reconVars, audit_logs, idempotency_keys, payments, transactions, idempotencyKey, requestBody,
                 existingKey, gatewayResponse, response, nwrites,
                 firstReturned, priorReturned>>

\* rpc("create_audit_log", ...) of the payments handler.
AuditLog(p) ==
  /\ pc[p] = "audit"
  /\ audit_logs' = audit_logs \cup {AuditRow(<<"call", p>>, "payment.created", p)}
  /\ pc' = [pc EXCEPT ![p] = "release"]
  /\ UNCHANGED <<hookVars, reconVars, idempotency_keys, payments, transactions, idempotencyKey, requestBody,
                 existingKey, gatewayResponse, response, faults, nwrites,
                 firstReturned, priorReturned>>

\* The audit rpc fails: the failure is swallowed.
AuditLogError(p) ==
  /\ pc[p] = "audit"
  /\ CanFail
  /\ faults' = faults + 1
  /\ pc' = [pc EXCEPT ![p] = IF AfterAudit(TRUE) = "continue" THEN "release" ELSE "catch"]
  /\ UNCHANGED <<hookVars, reconVars, audit_logs, idempotency_keys, payments, transactions, idempotencyKey, requestBody,
                 existingKey, gatewayResponse, response, nwrites,
                 firstReturned, priorReturned>>

\* The response of the success path and of the catch block.
FinalResponse(p) ==
  IF pc[p] = "release"
    THEN Response(201, PaymentBody(p, gatewayResponse[p], requestBody[p].amount_cents))
    ELSE Response(400, ErrorBody("Failed to create payment"))

\* Store idempotent response and unlock (success path and catch block), then return.
Release(p) ==
  LET k == idempotencyKey[p]
      a == requestBody[p].amount_cents
  IN /\ pc[p] \in {"release", "catch"}
     /\ idempotency_keys' =
          [idempotency_keys EXCEPT ![k] = StoreResponse(@, FinalResponse(p))]
     /\ nwrites' = [nwrites EXCEPT ![p] = @ + 1]
     /\ response' = [response EXCEPT ![p] = FinalResponse(p)]
     /\ firstReturned' =
          IF firstReturned[k, a] = NoResponse
            THEN [firstReturned EXCEPT ![k, a] = FinalResponse(p)]
            ELSE firstReturned
     /\ pc' = [pc EXCEPT ![p] = "done"]
     /\ UNCHANGED <<hookVars, reconVars, audit_logs, payments, transactions, idempotencyKey, requestBody, existingKey,
                    gatewayResponse, faults, priorReturned>>

\* The release update fails: its result is not inspected, the response is returned.
ReleaseError(p) ==
  /\ pc[p] \in {"release", "catch"}
  /\ CanFail
  /\ faults' = faults + 1
  /\ response' = [response EXCEPT ![p] = FinalResponse(p)]
  /\ pc' = [pc EXCEPT ![p] = "done"]
  /\ UNCHANGED <<hookVars, reconVars, audit_logs, idempotency_keys, payments, transactions, idempotencyKey, requestBody,
                 existingKey, gatewayResponse, nwrites, firstReturned, priorReturned>>

\* The edge function instance dies between taking the lock and releasing it.
Crash(p) ==
  /\ pc[p] \in {"insert", "gateway", "txn", "audit", "release", "catch"}
  /\ CanFail
  /\ faults' = faults + 1
  /\ pc' = [pc EXCEPT ![p] = "crashed"]
  /\ UNCHANGED <<hookVars, reconVars, audit_logs, idempotency_keys, payments, transactions, idempotencyKey, requestBody,
                 existingKey, gatewayResponse, response, nwrites,
                 firstReturned, priorReturned>>

GatewayStatuses == {"succeeded", "failed"}

Next ==
  \/ \E p \in Calls, k \in RequestKeys, a \in Amounts : RejectInvalid(p, k, a)
  \/ \E p \in Calls, k \in RequestKeys, a \in Amounts : CheckKey(p, k, a)
  \/ \E p \in Calls, k \in RequestKeys, a \in Amounts : CheckKeyError(p, k, a)
  \/ \E p \in Calls : LockKey(p)
  \/ \E p \in Calls : LockKeyError(p)
  \/ \E p \in Calls : InsertPayment(p)
  \/ \E p \in Calls : InsertPaymentRejected(p)
  \/ \E p \in Calls : InsertPaymentError(p)
  \/ \E p \in Calls, s \in GatewayStatuses : GatewayUpdate(p, s)
  \/ \E p \in Calls, s \in GatewayStatuses : GatewayUpdateError(p, s)
  \/ \E p \in Calls : InsertTransaction(p)
  \/ \E p \in Calls : InsertTransactionError(p)
  \/ \E p \in Calls : AuditLog(p)
  \/ \E p \in Calls : AuditLogError(p)
  \/ \E p \in Calls : Release(p)
  \/ \E p \in Calls : ReleaseError(p)
  \/ \E p \in Calls : Crash(p)

Spec == Init /\ [][Next]_vars

\* A request handler that has not crashed runs on: each await returns.
Run(p) ==
  \/ LockKey(p)
  \/ InsertPayment(p)
  \/ InsertPaymentRejected(p)
  \/ \E s \in GatewayStatuses : GatewayUpdate(p, s)
  \/ InsertTransaction(p)
  \/ AuditLog(p)
  \/ Release(p)

\* Clients keep sending their requests.
Arrive(p) == \E k \in RequestKeys, a \in Amounts : RejectInvalid(p, k, a) \/ CheckKey(p, k, a)

FairSpec == Spec /\ \A p \in Calls : WF_vars(Run(p)) /\ WF_vars(Arrive(p))

\* =================================================== webhook functions
\* maxRetries of scheduleNextRetry, and the literal 5 of the webhooks handler.
maxRetries == 5
\* .limit(50) of the retry-webhooks select.
BatchLimit == 50
\* attempts of the row the webhooks handler inserts.
InitialAttempts == 1
\* A null next_attempt_at.
NoTime == -1

Min(a, b) == IF a <= b THEN a ELSE b

\* Variant: the delay without the cap of one hour.
UncappedDelay(attempt) == (2 ^ attempt) * 60

\* scheduleNextRetry: Math.min(Math.pow(2, nextAttempt) * 60, 3600), in seconds.
BackoffDelay(attempt) == Min((2 ^ attempt) * 60, 3600)

\* Variant: the delay of the attempt after the given one.
NextAttemptDelay(attempt) == Min((2 ^ (attempt + 1)) * 60, 3600)

\* scheduleRetry: Math.min(Math.pow(2, attempt) * 60, 3600), in seconds.
scheduleRetryDelay(attempt) == Min((2 ^ attempt) * 60, 3600)

\* The payload of an event id: its event_type and data.payment_id.
EventType(e) ==
  CASE e = "evt_1" -> "payment.refunded"
    [] e = "evt_2" -> "payment.failed"
    [] e = "evt_3" -> "payment.succeeded"
    [] OTHER -> "payment.cancelled"

EventPaymentId(e) == 1

\* Variant: every event is routed to handlePaymentSucceeded.
AlwaysSucceeded(eventType) == "succeeded"

\* Variant: an event of an unknown type is handled like payment.failed.
UnknownAsFailed(eventType) ==
  CASE eventType = "payment.succeeded" -> "succeeded"
    [] eventType = "payment.refunded" -> "refunded"
    [] OTHER -> "failed"

\* processWebhookEvent's switch: the status the handler of the type writes
\* ("" for a type without a handler).
HandledStatus(eventType) ==
  CASE eventType = "payment.succeeded" -> "succeeded"
    [] eventType = "payment.failed" -> "failed"
    [] eventType = "payment.refunded" -> "refunded"
    [] OTHER -> ""

\* p_action of the audit row the handler of the type writes.
AuditAction(eventType) ==
  CASE HandledStatus(eventType) = "succeeded" -> "payment_succeeded"
    [] HandledStatus(eventType) = "failed" -> "payment_failed"
    [] HandledStatus(eventType) = "refunded" -> "payment_refunded"
    [] OTHER -> ""

\* update({status, ...}).eq('external_payment_id', data.payment_id)
SetStatusByExternalId(rows, externalId, status) ==
  {IF r.external_payment_id = externalId THEN [r EXCEPT !.status = status] ELSE r
     : r \in rows}

\* Variant: webhook_events.event_id without its UNIQUE constraint.
NoEventIdTaken(rows, e) == FALSE

\* webhook_events.event_id is UNIQUE: an insert of a second row with the id fails.
EventIdTaken(rows, e) == \E r \in rows : r.event_id = e

\* A header value is a sequence of pieces; this piece is the text 'sha256='.
Prefix == <<"sha256=">>

\* No x-webhook-signature header (or an empty one).
NoSignature == <<>>

\* The HMAC-SHA256 of the body under the secret, in hex: two pieces of digits.
computedHex(secret, body) ==
  <<<<"hex-1", secret, body>>, <<"hex-2", secret, body>>>>

\* String.prototype.replace(piece, ''): the first occurrence is removed.
RECURSIVE replaceFirst(_, _)
replaceFirst(str, piece) ==
  IF str = <<>> THEN <<>>
  ELSE IF Head(str) = piece THEN Tail(str)
  ELSE <<Head(str)>> \o replaceFirst(Tail(str), piece)

verifyHMACSignature(body, sig, secret) ==
  computedHex(secret, body) = replaceFirst(sig, Prefix)

\* The documented header of a sender that holds the secret: sha256=<hex>.
SignedHeader(secret, body) == <<Prefix>> \o computedHex(secret, body)

\* The headers a request with the given body is sent with: none, the bare hex,
\* the documented form, the hex with 'sha256=' in its middle, the documented
\* form under another secret, and the documented form for another body.
Signatures(body) ==
  {NoSignature,
   computedHex("whsec", body),
   SignedHeader("whsec", body),
   <<computedHex("whsec", body)[1], Prefix, computedHex("whsec", body)[2]>>,
   SignedHeader("other", body),
   SignedHeader("whsec", "evt_1")}

\* select('id').eq('event_id', event_id).single(): is there such a row.
EventExists(rows, e) == \E r \in rows : r.event_id = e

\* The row the webhooks handler inserts into webhook_deliveries.  failures is
\* not a column: it counts the attempts actually made for the delivery that
\* failed (the handler run at ingestion and the retry POSTs).
NewDelivery(e) ==
  [event_id |-> e, status |-> "processing", attempts |-> InitialAttempts,
   error |-> "", next_attempt_at |-> NoTime, failures |-> 0]

\* The state after two CreatePayment requests (keys K1 and K2) have completed.
CreatedPayment(id, k, a, g) == [NewPayment(id, k, RequestOf(a)) EXCEPT !.status = g]

ReleasedRow(id, a, g) ==
  StoreResponse(UpsertLock(NoKeyRow, sha256Hex(RequestOf(a))),
                Response(201, PaymentBody(id, g, a)))

PaymentsCreated ==
  /\ \E g \in {"succeeded", "failed"} :
       /\ payments = {CreatedPayment(1, "K1", 100, g), CreatedPayment(2, "K2", 200, "succeeded")}
       /\ idempotency_keys =
            [k \in Keys |-> IF k = "K1" THEN ReleasedRow(1, 100, g)
                            ELSE ReleasedRow(2, 200, "succeeded")]
       /\ transactions = {[payment_id |-> 1, amount |-> 100, status |-> g],
                          [payment_id |-> 2, amount |-> 200, status |-> "succeeded"]}
       /\ gatewayResponse = [p \in Calls |-> IF p = 1 THEN g ELSE IF p = 2 THEN "succeeded" ELSE ""]
       /\ audit_logs = {AuditRow(<<"call", 1>>, "payment.created", 1),
                        AuditRow(<<"call", 2>>, "payment.created", 2)}
       /\ response = [p \in Calls |-> IF p = 1 THEN Response(201, PaymentBody(1, g, 100))
                                      ELSE IF p = 2 THEN Response(201, PaymentBody(2, "succeeded", 200))
                                      ELSE NoResponse]
       /\ firstReturned =
            [k \in Keys, a \in Amounts |->
               IF k = "K1" /\ a = 100 THEN Response(201, PaymentBody(1, g, 100))
               ELSE IF k = "K2" /\ a = 200 THEN Response(201, PaymentBody(2, "succeeded", 200))
               ELSE NoResponse]
  /\ pc = [p \in Calls |-> IF p <= 2 THEN "done" ELSE "idle"]
  /\ idempotencyKey = [p \in Calls |-> IF p = 2 THEN "K2" ELSE "K1"]
  /\ requestBody = [p \in Calls |-> IF p = 1 THEN RequestOf(100)
                                    ELSE IF p = 2 THEN RequestOf(200) ELSE NoBody]
  /\ existingKey = [p \in Calls |-> NoKeyRow]
  /\ faults = 0
  /\ nwrites = [p \in Calls |-> IF p <= 2 THEN 5 ELSE 0]
  /\ priorReturned = [p \in Calls |-> NoResponse]
  /\ HookIdle

\* The webhook functions start with the secret configured.
HookInit == PaymentsCreated /\ ReconIdle /\ webhookSecret = "whsec"

\* Ingestion of arbitrary requests: the secret may be missing.
IngestInit == PaymentsCreated /\ ReconIdle /\ webhookSecret \in {"", "whsec"}

\* ------------------------------------------- webhooks handler, step by step
\* Webhook requests are numbered in arrival order.
NextHook(h) == hpc[h] = "idle" /\ \A g \in Hooks : g < h => hpc[g] # "idle"

\* Missing signature or webhook secret: 400, before the body is read.
RejectMissing(h, sig) ==
  /\ NextHook(h)
  /\ sig = NoSignature \/ webhookSecret = ""
  /\ signature' = [signature EXCEPT ![h] = sig]
  /\ hpc' = [hpc EXCEPT ![h] = "done"]
  /\ hookStatus' = [hookStatus EXCEPT ![h] = 400]
  /\ UNCHANGED <<payments, payOnlyVars, reconVars, audit_logs, webhookSecret, payload, faults, webhook_events,
                 webhook_deliveries, webhookData, delivery, spc, failedDeliveries,
                 now, ticks, handlerRuns>>

\* The signature does not verify: 401 'Invalid signature'.
RejectSignature(h, e, sig) ==
  /\ NextHook(h)
  /\ sig # NoSignature /\ webhookSecret # ""
  /\ ~verifyHMACSignature(e, sig, webhookSecret)
  /\ signature' = [signature EXCEPT ![h] = sig]
  /\ payload' = [payload EXCEPT ![h] = e]
  /\ hpc' = [hpc EXCEPT ![h] = "done"]
  /\ hookStatus' = [hookStatus EXCEPT ![h] = 401]
  /\ UNCHANGED <<payments, payOnlyVars, reconVars, audit_logs, webhookSecret, faults, webhook_events,
                 webhook_deliveries, webhookData, delivery, spc, failedDeliveries,
                 now, ticks, handlerRuns>>

\* The request passes the signature check.
Verified(h, e, sig) ==
  /\ NextHook(h)
  /\ sig # NoSignature /\ webhookSecret # ""
  /\ verifyHMACSignature(e, sig, webhookSecret)
  /\ signature' = [signature EXCEPT ![h] = sig]
  /\ payload' = [payload EXCEPT ![h] = e]

\* A verified request arrives; check for a duplicate event.
FindEvent(h, e, sig) ==
  /\ Verified(h, e, sig)
  /\ webhookData' = [webhookData EXCEPT ![h] = e]
  /\ IF EventExists(webhook_events, e)
       THEN /\ hpc' = [hpc EXCEPT ![h] = "done"]
            /\ hookStatus' = [hookStatus EXCEPT ![h] = 200]
       ELSE /\ hpc' = [hpc EXCEPT ![h] = "storeEvent"]
            /\ UNCHANGED hookStatus
  /\ UNCHANGED <<payments, payOnlyVars, reconVars, audit_logs, webhookSecret, faults, webhook_events, webhook_deliveries,
                 delivery, spc, failedDeliveries, now, ticks, handlerRuns>>

\* The duplicate check fails: .single() yields no row and the handler goes on.
FindEventError(h, e, sig) ==
  /\ Verified(h, e, sig)
  /\ CanFail
  /\ faults' = faults + 1
  /\ webhookData' = [webhookData EXCEPT ![h] = e]
  /\ hpc' = [hpc EXCEPT ![h] = "storeEvent"]
  /\ UNCHANGED <<payments, payOnlyVars, reconVars, audit_logs, webhookSecret, webhook_events, webhook_deliveries, hookStatus,
                 delivery, spc, failedDeliveries, now, ticks, handlerRuns>>

\* Store webhook event.
StoreEvent(h) ==
  /\ hpc[h] = "storeEvent"
  /\ ~EventIdTaken(webhook_events, webhookData[h])
  /\ webhook_events' = webhook_events \cup
       {[id |-> h, event_id |-> webhookData[h], processed |-> FALSE]}
  /\ hpc' = [hpc EXCEPT ![h] = "createDelivery"]
  /\ UNCHANGED <<payments, payOnlyVars, reconVars, audit_logs, webhookSecret, signature, payload, faults, webhook_deliveries, webhookData,
                 delivery, hookStatus, spc, failedDeliveries, now, ticks, handlerRuns>>

\* webhookError (constraint violation): 500 'Failed to store event'.
StoreEventRejected(h) ==
  /\ hpc[h] = "storeEvent"
  /\ EventIdTaken(webhook_events, webhookData[h])
  /\ hpc' = [hpc EXCEPT ![h] = "done"]
  /\ hookStatus' = [hookStatus EXCEPT ![h] = 500]
  /\ UNCHANGED <<payments, payOnlyVars, reconVars, audit_logs, webhookSecret, signature, payload, faults, webhook_events, webhook_deliveries,
                 webhookData, delivery, spc, failedDeliveries, now, ticks, handlerRuns>>

\* webhookError (store failure): 500 'Failed to store event'.
StoreEventError(h) ==
  /\ hpc[h] = "storeEvent"
  /\ CanFail
  /\ faults' = faults + 1
  /\ hpc' = [hpc EXCEPT ![h] = "done"]
  /\ hookStatus' = [hookStatus EXCEPT ![h] = 500]
  /\ UNCHANGED <<payments, payOnlyVars, reconVars, audit_logs, webhookSecret, signature, payload, webhook_events, webhook_deliveries,
                 webhookData, delivery, spc, failedDeliveries, now, ticks, handlerRuns>>

\* Create webhook delivery record.
CreateDelivery(h) ==
  /\ hpc[h] = "createDelivery"
  /\ webhook_deliveries' = Append(webhook_deliveries, NewDelivery(webhookData[h]))
  /\ delivery' = [delivery EXCEPT ![h] = Len(webhook_deliveries) + 1]
  /\ hpc' = [hpc EXCEPT ![h] = "process"]
  /\ UNCHANGED <<payments, payOnlyVars, reconVars, audit_logs, webhookSecret, signature, payload, faults, webhook_events, webhookData,
                 hookStatus, spc, failedDeliveries, now, ticks, handlerRuns>>

\* deliveryError: logged, delivery is null and the handler goes on.
CreateDeliveryError(h) ==
  /\ hpc[h] = "createDelivery"
  /\ CanFail
  /\ faults' = faults + 1
  /\ hpc' = [hpc EXCEPT ![h] = "process"]
  /\ UNCHANGED <<payments, payOnlyVars, reconVars, audit_logs, webhookSecret, signature, payload, webhook_events, webhook_deliveries, webhookData,
                 delivery, hookStatus, spc, failedDeliveries, now, ticks, handlerRuns>>

\* processWebhookEvent: the handler of the event type updates the payment.
ProcessEvent(h) ==
  LET e == webhookData[h]
      status == HandledStatus(EventType(e))
  IN /\ hpc[h] = "process"
     /\ handlerRuns' = [handlerRuns EXCEPT ![e] = @ + 1]
     /\ payments' = IF status = "" THEN payments
                    ELSE SetStatusByExternalId(payments, EventPaymentId(e), status)
     /\ hpc' = [hpc EXCEPT ![h] = IF status = "" THEN "markProcessed" ELSE "audit"]
     /\ UNCHANGED <<payOnlyVars, reconVars, audit_logs, webhookSecret, signature, payload, faults, webhook_events, webhook_deliveries, webhookData,
                    delivery, hookStatus, spc, failedDeliveries, now, ticks>>

\* The payment update returns an error: the handler throws
\* 'Failed to update payment status'.
ProcessEventError(h) ==
  LET e == webhookData[h]
  IN /\ hpc[h] = "process"
     /\ HandledStatus(EventType(e)) # ""
     /\ CanFail
     /\ faults' = faults + 1
     /\ handlerRuns' = [handlerRuns EXCEPT ![e] = @ + 1]
     /\ webhook_deliveries' =
          IF delivery[h] # 0
            THEN [webhook_deliveries EXCEPT ![delivery[h]].failures = @ + 1]
            ELSE webhook_deliveries
     /\ hpc' = [hpc EXCEPT ![h] = "catch"]
     /\ UNCHANGED <<payments, payOnlyVars, reconVars, audit_logs, webhookSecret, signature, payload, webhook_events, webhookData,
                    delivery, hookStatus, spc, failedDeliveries, now, ticks>>

\* The handler of the event type writes its audit row.
AuditEvent(h) ==
  LET e == webhookData[h]
  IN /\ hpc[h] = "audit"
     /\ audit_logs' = audit_logs \cup
          {AuditRow(<<"hook", h>>, AuditAction(EventType(e)), EventPaymentId(e))}
     /\ hpc' = [hpc EXCEPT ![h] = "markProcessed"]
     /\ UNCHANGED <<payments, payOnlyVars, reconVars, webhookSecret, signature, payload, faults, webhook_events,
                    webhook_deliveries, webhookData, delivery, hookStatus, spc,
                    failedDeliveries, now, ticks, handlerRuns>>

\* The audit rpc fails: its result is not inspected.
AuditEventError(h) ==
  /\ hpc[h] = "audit"
  /\ CanFail
  /\ faults' = faults + 1
  /\ hpc' = [hpc EXCEPT ![h] = IF AfterAudit(TRUE) = "continue" THEN "markProcessed" ELSE "catch"]
  /\ UNCHANGED <<payments, payOnlyVars, reconVars, audit_logs, webhookSecret, signature, payload, webhook_events,
                 webhook_deliveries, webhookData, delivery, hookStatus, spc,
                 failedDeliveries, now, ticks, handlerRuns>>

\* Mark event as processed (.eq('id', webhookEvent.id)).
MarkProcessed(h) ==
  /\ hpc[h] = "markProcessed"
  /\ webhook_events' =
       {IF r.id = h THEN [r EXCEPT !.processed = TRUE] ELSE r : r \in webhook_events}
  /\ hpc' = [hpc EXCEPT ![h] = "markDelivered"]
  /\ UNCHANGED <<payments, payOnlyVars, reconVars, audit_logs, webhookSecret, signature, payload, faults, webhook_deliveries, webhookData,
                 delivery, hookStatus, spc, failedDeliveries, now, ticks, handlerRuns>>

\* The update of the event fails; the result is not inspected.
MarkProcessedError(h) ==
  /\ hpc[h] = "markProcessed"
  /\ CanFail
  /\ faults' = faults + 1
  /\ hpc' = [hpc EXCEPT ![h] = "markDelivered"]
  /\ UNCHANGED <<payments, payOnlyVars, reconVars, audit_logs, webhookSecret, signature, payload, webhook_events, webhook_deliveries, webhookData,
                 delivery, hookStatus, spc, failedDeliveries, now, ticks, handlerRuns>>

\* Mark delivery as successful (if there is a delivery row) and answer 200.
MarkDelivered(h) ==
  /\ hpc[h] = "markDelivered"
  /\ webhook_deliveries' =
       IF delivery[h] # 0
         THEN [webhook_deliveries EXCEPT ![delivery[h]].status = "delivered"]
         ELSE webhook_deliveries
  /\ hpc' = [hpc EXCEPT ![h] = "done"]
  /\ hookStatus' = [hookStatus EXCEPT ![h] = 200]
  /\ UNCHANGED <<payments, payOnlyVars, reconVars, audit_logs, webhookSecret, signature, payload, faults, webhook_events, webhookData, delivery,
                 spc, failedDeliveries, now, ticks, handlerRuns>>

\* The update of the delivery fails; the result is not inspected; answer 200.
MarkDeliveredError(h) ==
  /\ hpc[h] = "markDelivered"
  /\ delivery[h] # 0
  /\ CanFail
  /\ faults' = faults + 1
  /\ hpc' = [hpc EXCEPT ![h] = "done"]
  /\ hookStatus' = [hookStatus EXCEPT ![h] = 200]
  /\ UNCHANGED <<payments, payOnlyVars, reconVars, audit_logs, webhookSecret, signature, payload, webhook_events, webhook_deliveries, webhookData,
                 delivery, spc, failedDeliveries, now, ticks, handlerRuns>>

\* catch (processingError): mark the delivery failed (delivery.attempts is the
\* value of the inserted row) or abandoned; without a delivery row answer 500.
MarkFailed(h) ==
  /\ hpc[h] = "catch"
  /\ IF delivery[h] = 0
       THEN /\ hpc' = [hpc EXCEPT ![h] = "done"]
            /\ hookStatus' = [hookStatus EXCEPT ![h] = 500]
            /\ UNCHANGED webhook_deliveries
       ELSE IF InitialAttempts < maxRetries
         THEN /\ webhook_deliveries' =
                   [webhook_deliveries EXCEPT
                      ![delivery[h]].status = "failed",
                      ![delivery[h]].error = "Failed to update payment status"]
              /\ hpc' = [hpc EXCEPT ![h] = "scheduleRetry"]
              /\ UNCHANGED hookStatus
         ELSE /\ webhook_deliveries' =
                   [webhook_deliveries EXCEPT
                      ![delivery[h]].status = "abandoned",
                      ![delivery[h]].error = "Failed to update payment status"]
              /\ hpc' = [hpc EXCEPT ![h] = "done"]
              /\ hookStatus' = [hookStatus EXCEPT ![h] = 500]
  /\ UNCHANGED <<payments, payOnlyVars, reconVars, audit_logs, webhookSecret, signature, payload, faults, webhook_events, webhookData, delivery,
                 spc, failedDeliveries, now, ticks, handlerRuns>>

\* scheduleRetry(supabase, delivery.id, delivery.attempts), then answer 500.
ScheduleRetry(h) ==
  /\ hpc[h] = "scheduleRetry"
  /\ webhook_deliveries' =
       [webhook_deliveries EXCEPT
          ![delivery[h]].next_attempt_at = now + scheduleRetryDelay(InitialAttempts),
          ![delivery[h]].attempts = InitialAttempts + 1]
  /\ hpc' = [hpc EXCEPT ![h] = "done"]
  /\ hookStatus' = [hookStatus EXCEPT ![h] = 500]
  /\ UNCHANGED <<payments, payOnlyVars, reconVars, audit_logs, webhookSecret, signature, payload, faults, webhook_events, webhookData, delivery,
                 spc, failedDeliveries, now, ticks, handlerRuns>>

\* ------------------------------------ retry-webhooks handler, step by step
\* Variant: the selection without .lte('next_attempt_at', now).
RECURSIVE FailedFrom(_)
FailedFrom(i) ==
  IF i > Len(webhook_deliveries) THEN <<>>
  ELSE IF webhook_deliveries[i].status = "failed"
    THEN <<[id |-> i, attempts |-> webhook_deliveries[i].attempts]>> \o FailedFrom(i + 1)
  ELSE FailedFrom(i + 1)

\* The ids of the failed deliveries that are due, in created_at (id) order.
RECURSIVE DueFrom(_)
DueFrom(i) ==
  IF i > Len(webhook_deliveries) THEN <<>>
  ELSE IF /\ webhook_deliveries[i].status = "failed"
          /\ webhook_deliveries[i].next_attempt_at # NoTime
          /\ webhook_deliveries[i].next_attempt_at <= now
    THEN <<[id |-> i, attempts |-> webhook_deliveries[i].attempts]>> \o DueFrom(i + 1)
  ELSE DueFrom(i + 1)

\* .eq('status', 'failed').lte('next_attempt_at', now).order('created_at').limit(50)
SelectDue == SubSeq(DueFrom(1), 1, Min(Len(DueFrom(1)), BatchLimit))

\* Invocations are interchangeable: the lowest-numbered idle one starts next.
NextSweep(s) == spc[s] = "idle" /\ \A t \in Sweeps : t < s => spc[t] # "idle"

\* What follows the delivery at the head of the batch.
AfterDelivery(s) ==
  /\ failedDeliveries' = [failedDeliveries EXCEPT ![s] = Tail(@)]
  /\ spc' = [spc EXCEPT ![s] = IF Tail(failedDeliveries[s]) = <<>> THEN "idle" ELSE "retry"]

\* An invocation starts and selects its batch (an empty batch returns at once).
SelectFailed(s) ==
  /\ NextSweep(s)
  /\ SelectDue # <<>>
  /\ failedDeliveries' = [failedDeliveries EXCEPT ![s] = SelectDue]
  /\ spc' = [spc EXCEPT ![s] = "retry"]
  /\ UNCHANGED <<payments, payOnlyVars, reconVars, audit_logs, webhookSecret, signature, payload, faults, webhook_events, webhook_deliveries,
                 hpc, webhookData, delivery, hookStatus, now, ticks, handlerRuns>>

\* retryFailedWebhook, response.ok: the delivery is marked delivered.
RetrySucceeds(s) ==
  LET d == Head(failedDeliveries[s])
  IN /\ spc[s] = "retry"
     /\ webhook_deliveries' =
          [webhook_deliveries EXCEPT ![d.id].status = "delivered", ![d.id].error = ""]
     /\ AfterDelivery(s)
     /\ UNCHANGED <<payments, payOnlyVars, reconVars, audit_logs, webhookSecret, signature, payload, faults, webhook_events,
                    hpc, webhookData, delivery, hookStatus, now, ticks, handlerRuns>>

\* retryFailedWebhook, not ok or fetch throws: failed, attempts of the selected row + 1.
RetryFails(s) ==
  LET d == Head(failedDeliveries[s])
  IN /\ spc[s] = "retry"
     /\ d.attempts < MaxAttempts
     /\ webhook_deliveries' =
          [webhook_deliveries EXCEPT
             ![d.id].status = "failed",
             ![d.id].error = "HTTP error",
             ![d.id].attempts = d.attempts + 1,
             ![d.id].failures = @ + 1]
     /\ spc' = [spc EXCEPT ![s] = "schedule"]
     /\ UNCHANGED <<payments, payOnlyVars, reconVars, audit_logs, webhookSecret, signature, payload, faults, webhook_events, failedDeliveries,
                    hpc, webhookData, delivery, hookStatus, now, ticks, handlerRuns>>

\* scheduleNextRetry(supabase, delivery) on the selected row.
ScheduleNextRetry(s) ==
  LET d == Head(failedDeliveries[s])
      nextAttempt == d.attempts + 1
  IN /\ spc[s] = "schedule"
     /\ webhook_deliveries' =
          IF nextAttempt >= maxRetries
            THEN [webhook_deliveries EXCEPT
                    ![d.id].status = "abandoned",
                    ![d.id].error = "Maximum retry attempts exceeded"]
            ELSE [webhook_deliveries EXCEPT
                    ![d.id].next_attempt_at = now + BackoffDelay(nextAttempt),
                    ![d.id].attempts = nextAttempt]
     /\ spc' = [spc EXCEPT ![s] = "check"]
     /\ UNCHANGED <<payments, payOnlyVars, reconVars, audit_logs, webhookSecret, signature, payload, faults, webhook_events, failedDeliveries,
                    hpc, webhookData, delivery, hookStatus, now, ticks, handlerRuns>>

\* Check if it was abandoned (a read), then go on with the batch.
CheckAbandoned(s) ==
  /\ spc[s] = "check"
  /\ AfterDelivery(s)
  /\ UNCHANGED <<payments, payOnlyVars, reconVars, audit_logs, webhookSecret, signature, payload, faults, webhook_events, webhook_deliveries,
                 hpc, webhookData, delivery, hookStatus, now, ticks, handlerRuns>>

\* The times at which a failed delivery becomes due.
DueTimes ==
  {webhook_deliveries[i].next_attempt_at : i \in
     {j \in 1..Len(webhook_deliveries) :
        /\ webhook_deliveries[j].status = "failed"
        /\ webhook_deliveries[j].next_attempt_at > now}}

\* Time passes, up to the next time a failed delivery becomes due.
Tick ==
  /\ ticks < MaxTicks
  /\ DueTimes # {}
  /\ now' = CHOOSE t \in DueTimes : \A u \in DueTimes : t <= u
  /\ ticks' = ticks + 1
  /\ UNCHANGED <<payments, payOnlyVars, reconVars, audit_logs, webhookSecret, signature, payload, faults, webhook_events, webhook_deliveries,
                 hpc, webhookData, delivery, hookStatus, spc, failedDeliveries, handlerRuns>>

HookNext ==
  \/ \E h \in Hooks, e \in RetriedEventIds : FindEvent(h, e, SignedHeader("whsec", e))
  \/ \E h \in Hooks, e \in RetriedEventIds : FindEventError(h, e, SignedHeader("whsec", e))
  \/ \E h \in Hooks : StoreEvent(h)
  \/ \E h \in Hooks : StoreEventRejected(h)
  \/ \E h \in Hooks : StoreEventError(h)
  \/ \E h \in Hooks : CreateDelivery(h)
  \/ \E h \in Hooks : CreateDeliveryError(h)
  \/ \E h \in Hooks : ProcessEvent(h)
  \/ \E h \in Hooks : ProcessEventError(h)
  \/ \E h \in Hooks : AuditEvent(h)
  \/ \E h \in Hooks : AuditEventError(h)
  \/ \E h \in Hooks : MarkProcessed(h)
  \/ \E h \in Hooks : MarkProcessedError(h)
  \/ \E h \in Hooks : MarkDelivered(h)
  \/ \E h \in Hooks : MarkDeliveredError(h)
  \/ \E h \in Hooks : MarkFailed(h)
  \/ \E h \in Hooks : ScheduleRetry(h)
  \/ \E s \in Sweeps : SelectFailed(s)
  \/ \E s \in Sweeps : RetrySucceeds(s)
  \/ \E s \in Sweeps : RetryFails(s)
  \/ \E s \in Sweeps : ScheduleNextRetry(s)
  \/ \E s \in Sweeps : CheckAbandoned(s)
  \/ Tick

HookSpec == HookInit /\ [][HookNext]_vars

\* A webhook request that has entered the handler runs to its return.
HookRun(h) ==
  \/ StoreEvent(h) \/ StoreEventRejected(h) \/ StoreEventError(h)
  \/ CreateDelivery(h) \/ CreateDeliveryError(h)
  \/ ProcessEvent(h) \/ ProcessEventError(h)
  \/ AuditEvent(h) \/ AuditEventError(h)
  \/ MarkProcessed(h) \/ MarkProcessedError(h)
  \/ MarkDelivered(h) \/ MarkDeliveredError(h)
  \/ MarkFailed(h) \/ ScheduleRetry(h)

\* A retry run that has selected its batch works through it.
SweepRun(s) ==
  RetrySucceeds(s) \/ RetryFails(s) \/ ScheduleNextRetry(s) \/ CheckAbandoned(s)

\* Ingestion alone, of requests with any of the events and headers.
IngestNext ==
  \/ \E h \in Hooks, e \in EventIds : \E sig \in Signatures(e) : RejectMissing(h, sig)
  \/ \E h \in Hooks, e \in EventIds : \E sig \in Signatures(e) : RejectSignature(h, e, sig)
  \/ \E h \in Hooks, e \in EventIds : \E sig \in Signatures(e) : FindEvent(h, e, sig)
  \/ \E h \in Hooks, e \in EventIds : \E sig \in Signatures(e) : FindEventError(h, e, sig)
  \/ \E h \in Hooks : HookRun(h)

IngestSpec == IngestInit /\ [][IngestNext]_vars

\* No crash: handlers and retry runs keep running, retry runs keep being
\* started, and time advances.
HookFairSpec ==
  /\ HookSpec
  /\ \A h \in Hooks : WF_vars(HookRun(h))
  /\ \A s \in Sweeps : WF_vars(SweepRun(s)) /\ WF_vars(SelectFailed(s))
  /\ WF_vars(Tick)

\* CreatePayment requests and one payment.succeeded webhook for the first
\* payment, running side by side; the only store calls that fail are the audit
\* writes.
AuditNext ==
  \/ \E p \in Calls : CheckKey(p, "K1", 100)
  \/ \E p \in Calls : LockKey(p)
  \/ \E p \in Calls : InsertPayment(p)
  \/ \E p \in Calls : InsertPaymentRejected(p)
  \/ \E p \in Calls, s \in GatewayStatuses : GatewayUpdate(p, s)
  \/ \E p \in Calls : InsertTransaction(p)
  \/ \E p \in Calls : AuditLog(p)
  \/ \E p \in Calls : AuditLogError(p)
  \/ \E p \in Calls : Release(p)
  \/ FindEvent(1, "evt_3", SignedHeader("whsec", "evt_3"))
  \/ StoreEvent(1)
  \/ CreateDelivery(1)
  \/ ProcessEvent(1)
  \/ AuditEvent(1)
  \/ AuditEventError(1)
  \/ MarkProcessed(1)
  \/ MarkDelivered(1)

AuditSpec == Init /\ [][AuditNext]_vars

\* ------------------------------------------------- reconciliation (frontend)
\* A row of reconciliation_records (matched_payment_id 0: null).
Record(uploader, externalId, amount) ==
  [uploaded_by |-> uploader, external_transaction_id |-> externalId, amount |-> amount,
   status |-> "unmatched", matched_payment_id |-> 0]

\* A row of payments as the frontend reads it; ids are handed out in the order
\* of creation.
UserPayment(id, owner, externalId, amount) ==
  [id |-> id, user_id |-> owner, amount |-> amount, external_payment_id |-> externalId,
   status |-> "succeeded", created_at |-> id]

amountMatch(record, payment) == record.amount = payment.amount

idMatch(record, payment) == record.external_transaction_id = payment.external_payment_id

\* The inner loop: payment.id of the first payment of the array that matches
\* the record in amount and id (0: matchFound stays false).
FirstMatch(record, rows) ==
  LET hits == {i \in 1..Len(rows) : amountMatch(record, rows[i]) /\ idMatch(record, rows[i])}
  IN IF hits = {} THEN 0
     ELSE rows[CHOOSE i \in hits : \A j \in hits : i <= j].id

\* Variant: the select without its uploaded_by filter.
SelectUnmatchedOfAll(rows, u) == {i \in DOMAIN rows : rows[i].status = "unmatched"}

\* select("*").eq("uploaded_by", user.id).eq("status", "unmatched")
SelectUnmatched(rows, u) ==
  {i \in DOMAIN rows : rows[i].uploaded_by = u /\ rows[i].status = "unmatched"}

\* select("*").eq("user_id", user.id) on payments
SelectPaymentsOf(rows, u) == {r \in rows : r.user_id = u}

\* The arrays a select without an order may return for a set of rows.
Orders(S) ==
  {q \in [1..Cardinality(S) -> S] : \A i, j \in 1..Cardinality(S) : q[i] = q[j] => i = j}

RECURSIVE Ascending(_)
Ascending(S) ==
  IF S = {} THEN <<>>
  ELSE LET m == CHOOSE x \in S : \A y \in S : x <= y
       IN <<m>> \o Ascending(S \ {m})

\* update({status: "matched", matched_payment_id}).eq("id", record.id), sent with
\* the user's session: without an UPDATE policy it changes no row.
UpdateRecord(rows, id, paymentId, allowed) ==
  IF allowed
    THEN [rows EXCEPT ![id].status = "matched", ![id].matched_payment_id = paymentId]
    ELSE rows

Summary(total, nMatched, nUnmatched) ==
  [total_records |-> total, matched |-> nMatched, unmatched |-> nUnmatched]

\* The uploaded records; the migration defines no UPDATE policy on
\* reconciliation_records, and migrations that are not part of the sources
\* (the ones that create idempotency_keys and webhook_deliveries) may add one.
ReconInit ==
  /\ PayInit /\ HookIdle /\ webhookSecret = "whsec"
  /\ \E u \in Users, x \in ExternalIds, a \in RecordAmounts :
       reconciliation_records =
         [i \in RecordIds |-> IF i = 1 THEN Record("u1", "PAY_1", 100) ELSE Record(u, x, a)]
  /\ recordUpdatePolicy \in BOOLEAN
  /\ rpc = [s \in Runs |-> "idle"]
  /\ user = [s \in Runs |-> ""]
  /\ unmatchedRecords = [s \in Runs |-> <<>>]
  /\ userPayments = [s \in Runs |-> <<>>]
  /\ matchedWith = [s \in Runs |-> <<>>]
  /\ matched = [s \in Runs |-> 0]
  /\ unmatched = [s \in Runs |-> 0]
  /\ lastRunSummary = [s \in Runs |-> NoSummary]

\* Runs are numbered in the order in which they start.
NextRun(s) == rpc[s] = "idle" /\ \A q \in Runs : q < s => rpc[q] # "idle"

\* Nobody is signed in: the run returns after the toast.
NotSignedIn(s) ==
  /\ NextRun(s)
  /\ rpc' = [rpc EXCEPT ![s] = "done"]
  /\ UNCHANGED <<payVars, hookVars, audit_logs, reconciliation_records, recordUpdatePolicy,
                 user, unmatchedRecords, userPayments, matchedWith, matched, unmatched,
                 lastRunSummary>>

\* Get unmatched reconciliation records.
SelectRecords(s, u) ==
  /\ NextRun(s)
  /\ user' = [user EXCEPT ![s] = u]
  /\ unmatchedRecords' =
       [unmatchedRecords EXCEPT ![s] = Ascending(SelectUnmatched(reconciliation_records, u))]
  /\ rpc' = [rpc EXCEPT ![s] = "payments"]
  /\ UNCHANGED <<payVars, hookVars, audit_logs, reconciliation_records, recordUpdatePolicy,
                 userPayments, matchedWith, matched, unmatched, lastRunSummary>>

\* recordsError: thrown, the run ends in the catch block.
SelectRecordsError(s, u) ==
  /\ NextRun(s)
  /\ CanFail
  /\ faults' = faults + 1
  /\ user' = [user EXCEPT ![s] = u]
  /\ rpc' = [rpc EXCEPT ![s] = "done"]
  /\ UNCHANGED <<payments, payOnlyVars, hookVars, audit_logs,
                 reconciliation_records, recordUpdatePolicy, unmatchedRecords, userPayments,
                 matchedWith, matched, unmatched, lastRunSummary>>

\* Get all payments for this user; with no record to deal with the loop is
\* skipped and the summary is displayed.
SelectPayments(s, rows) ==
  /\ rpc[s] = "payments"
  /\ rows \in Orders(SelectPaymentsOf(payments, user[s]))
  /\ userPayments' = [userPayments EXCEPT ![s] = rows]
  /\ IF unmatchedRecords[s] = <<>>
       THEN /\ rpc' = [rpc EXCEPT ![s] = "done"]
            /\ lastRunSummary' = [lastRunSummary EXCEPT ![s] = Summary(0, 0, 0)]
       ELSE /\ rpc' = [rpc EXCEPT ![s] = "match"]
            /\ UNCHANGED lastRunSummary
  /\ UNCHANGED <<payVars, hookVars, audit_logs, reconciliation_records, recordUpdatePolicy,
                 user, unmatchedRecords, matchedWith, matched, unmatched>>

\* paymentsError: thrown, the run ends in the catch block.
SelectPaymentsError(s) ==
  /\ rpc[s] = "payments"
  /\ CanFail
  /\ faults' = faults + 1
  /\ rpc' = [rpc EXCEPT ![s] = "done"]
  /\ UNCHANGED <<payments, payOnlyVars, hookVars, audit_logs,
                 reconciliation_records, recordUpdatePolicy, user, unmatchedRecords,
                 userPayments, matchedWith, matched, unmatched, lastRunSummary>>

\* One iteration of the outer loop for the next record of the run; `stored`
\* says whether the update reached the store. After the last record the
\* summary is displayed.
Iterate(s, stored) ==
  LET id == unmatchedRecords[s][Len(matchedWith[s]) + 1]
      record == reconciliation_records[id]
      paymentId == FirstMatch(record, userPayments[s])
      nMatched == IF paymentId # 0 THEN matched[s] + 1 ELSE matched[s]
      nUnmatched == IF paymentId # 0 THEN unmatched[s] ELSE unmatched[s] + 1
      last == Len(matchedWith[s]) + 1 = Len(unmatchedRecords[s])
  IN /\ rpc[s] = "match"
     /\ stored \/ paymentId # 0
     /\ reconciliation_records' =
          IF paymentId # 0 /\ stored
            THEN UpdateRecord(reconciliation_records, id, paymentId, recordUpdatePolicy)
            ELSE reconciliation_records
     /\ matchedWith' = [matchedWith EXCEPT ![s] = Append(@, paymentId)]
     /\ matched' = [matched EXCEPT ![s] = nMatched]
     /\ unmatched' = [unmatched EXCEPT ![s] = nUnmatched]
     /\ rpc' = [rpc EXCEPT ![s] = IF last THEN "done" ELSE "match"]
     /\ lastRunSummary' =
          IF last
            THEN [lastRunSummary EXCEPT
                    ![s] = Summary(Len(unmatchedRecords[s]), nMatched, nUnmatched)]
            ELSE lastRunSummary
     /\ UNCHANGED <<hookVars, audit_logs, recordUpdatePolicy, user, unmatchedRecords,
                    userPayments, payments, payOnlyVars>>

MatchRecord(s) == Iterate(s, TRUE) /\ UNCHANGED faults

\* The update of the record fails: its result is not inspected.
MatchRecordError(s) ==
  /\ CanFail
  /\ faults' = faults + 1
  /\ Iterate(s, FALSE)

\* A payment of a user is created.
PaymentAppears(u, x, a) ==
  /\ Cardinality(payments) < MaxPayments
  /\ payments' = payments \cup {UserPayment(Cardinality(payments) + 1, u, x, a)}
  /\ UNCHANGED <<payOnlyVars, faults, hookVars, audit_logs, reconVars>>

ReconNext ==
  \/ \E s \in Runs : NotSignedIn(s)
  \/ \E s \in Runs, u \in Users : SelectRecords(s, u)
  \/ \E s \in Runs, u \in Users : SelectRecordsError(s, u)
  \/ \E s \in Runs : \E rows \in Orders(SelectPaymentsOf(payments, user[s])) :
       SelectPayments(s, rows)
  \/ \E s \in Runs : SelectPaymentsError(s)
  \/ \E s \in Runs : MatchRecord(s)
  \/ \E s \in Runs : MatchRecordError(s)
  \/ \E u \in Users, x \in ExternalIds, a \in RecordAmounts : PaymentAppears(u, x, a)

ReconSpec == ReconInit /\ [][ReconNext]_vars

\* ================================================================ claims
PaymentsOfKey(k) == {r \in payments : r.idempotency_key = k}

SameRequest(p, q) ==
  /\ idempotencyKey[p] = idempotencyKey[q]
  /\ requestBody[p] = requestBody[q]

\* The request passed validation and its lookup returned a row.
FoundRow(p) == pc[p] # "idle" /\ existingKey[p].exists

\* C1: for every interleaving of CreatePayment requests with the same key, at
\* most one row of payments carries that idempotency key.
C1_AtMostOnePaymentPerKey ==
  \A k \in Keys : Cardinality(PaymentsOfKey(k)) <= 1

\* C1 witness: two requests with the same key and body both looked up before
\* either had written the ledger row, both proceeded and returned, and one
\* payment row exists.
C1_Witness ==
  \E p, q \in Calls :
    /\ p # q /\ SameRequest(p, q) /\ faults = 0
    /\ pc[p] = "done" /\ pc[q] = "done"
    /\ ~existingKey[p].exists /\ ~existingKey[q].exists
    /\ nwrites[p] > 0 /\ nwrites[q] > 0
    /\ Cardinality(PaymentsOfKey(idempotencyKey[p])) = 1

\* C2: once a call with (K, B) has released the ledger and returned, every call
\* with the same (K, B) that arrives later returns that same status and body.
C2_ReplayReturnsFirstResponse ==
  \A p \in Calls :
    (pc[p] = "done" /\ priorReturned[p] # NoResponse) => response[p] = priorReturned[p]

\* The row the lookup returned holds a stored response for the same request hash.
SawStoredResponse(p) ==
  /\ FoundRow(p)
  /\ existingKey[p].response # NullBody
  /\ existingKey[p].request_hash = sha256Hex(requestBody[p])

SawOtherHash(p) ==
  /\ FoundRow(p)
  /\ existingKey[p].request_hash # sha256Hex(requestBody[p])

C5_LedgerNeverOverwritten ==
  [][\A k \in Keys :
       idempotency_keys[k].exists =>
         /\ idempotency_keys'[k].request_hash = idempotency_keys[k].request_hash
         /\ idempotency_keys[k].response # NullBody =>
              /\ idempotency_keys'[k].response = idempotency_keys[k].response
              /\ idempotency_keys'[k].status_code = idempotency_keys[k].status_code]_vars

\* C6: a call that took the lock and returns a response leaves the row of its
\* key unlocked and with a stored response at the moment it returns.
C6_LockReleasedOnReturn ==
  [][\A p \in Calls :
       (pc[p] \in {"release", "catch"} /\ pc'[p] = "done") =>
         /\ ~idempotency_keys'[idempotencyKey[p]].locked
         /\ idempotency_keys'[idempotencyKey[p]].response # NullBody]_vars

\* C7: a lock left behind by a crashed call is eventually released, so that
\* later requests with the key stop being answered 409 "being processed".
C7_StaleLockRecovered ==
  \A p \in Calls :
    (pc[p] = "crashed") ~> (~idempotency_keys[idempotencyKey[p]].locked)

\* The row the lookup returned is locked and has the same request hash.
SawLocked(p) ==
  /\ FoundRow(p)
  /\ existingKey[p].locked
  /\ existingKey[p].request_hash = sha256Hex(requestBody[p])

C10_NoOverlappingSweeps ==
  \A s, t \in Sweeps :
    (s # t /\ spc[s] # "idle" /\ spc[t] # "idle") =>
      Head(failedDeliveries[s]).id # Head(failedDeliveries[t]).id

\* A delivery that has reached a terminal status.
Terminal(row) == row.status \in {"delivered", "abandoned"}

DeliveryIds == 1..Len(webhook_deliveries)

\* C11: once a delivery is delivered or abandoned, no later step changes its
\* status, attempts or next_attempt_at.
C11_TerminalDeliveryStates ==
  [][\A i \in DeliveryIds :
       Terminal(webhook_deliveries[i]) =>
         /\ webhook_deliveries'[i].status = webhook_deliveries[i].status
         /\ webhook_deliveries'[i].attempts = webhook_deliveries[i].attempts
         /\ webhook_deliveries'[i].next_attempt_at = webhook_deliveries[i].next_attempt_at]_vars

\* C13: a sweep's failed retry of a delivery selected with attempts = a ends
\* (retryFailedWebhook, then scheduleNextRetry) with attempts = a + 1; with
\* status abandoned if a + 1 >= 5, and otherwise with status failed, an error
\* text and next_attempt_at = now + min(2^(a+1) * 60, 3600).
C13_RetryFailureRule ==
  [][\A s \in Sweeps :
       (spc[s] = "schedule" /\ spc'[s] = "check") =>
         LET a == Head(failedDeliveries[s]).attempts
             row == webhook_deliveries'[Head(failedDeliveries[s]).id]
         IN /\ row.attempts = a + 1
            /\ IF a + 1 >= 5
                 THEN row.status = "abandoned"
                 ELSE /\ row.status = "failed"
                      /\ row.error # ""
                      /\ row.next_attempt_at = now + Min((2 ^ (a + 1)) * 60, 3600)]_vars

C15_AbandonedAfterFiveFailures ==
  \A i \in DeliveryIds :
    webhook_deliveries[i].status = "abandoned" => webhook_deliveries[i].failures >= 5

\* C12: with handlers and retry runs that keep running and time that advances,
\* every delivery eventually is delivered or abandoned and stays so (as far as
\* the model follows time: up to MaxTicks advances).
C12_EventualTerminalState ==
  \A i \in 1..NumHooks :
    [](i \in DeliveryIds =>
         <>[](i \in DeliveryIds /\ (Terminal(webhook_deliveries[i]) \/ ticks = MaxTicks)))

\* The header carries the HMAC-SHA256 of the body under the configured secret:
\* the hex itself or the documented sha256=<hex>.
IsHmacOf(sig, body) ==
  \/ sig = computedHex(webhookSecret, body)
  \/ sig = SignedHeader(webhookSecret, body)

\* C16: a request whose signature header is present and is not the HMAC-SHA256
\* of its body under the configured secret is answered 401 and creates no
\* event, no delivery and changes no payment.
C16_SignatureRejection ==
  [][\A h \in Hooks :
       (/\ hpc[h] = "idle" /\ hpc'[h] # "idle"
        /\ signature'[h] # NoSignature /\ webhookSecret # ""
        /\ ~IsHmacOf(signature'[h], payload'[h])) =>
         /\ hpc'[h] = "done" /\ hookStatus'[h] = 401
         /\ UNCHANGED <<webhook_events, webhook_deliveries, payments>>]_vars

\* C17: a request without a signature header, or received while no secret is
\* configured, is answered 401 before its body is read.
C17_MissingSignatureOrSecret ==
  \A h \in Hooks :
    (hpc[h] # "idle" /\ (signature[h] = NoSignature \/ webhookSecret = "")) =>
      /\ hpc[h] = "done" /\ hookStatus[h] = 401
      /\ payload[h] = ""

\* The payment an event correlates to.
PaymentOfEvent(e) == {r \in payments : r.external_payment_id = EventPaymentId(e)}

\* C18: when the handler of an event failed at ingestion and a later retry of
\* its delivery has succeeded, the event's status is applied to its payment
\* (no other event having been handled meanwhile).
C18_FailedEventRecovered ==
  \A i \in DeliveryIds :
    LET e == webhook_deliveries[i].event_id
    IN (/\ webhook_deliveries[i].status = "delivered"
        /\ webhook_deliveries[i].failures >= 1
        /\ \A e2 \in EventIds \ {e} : handlerRuns[e2] = 0) =>
         \A r \in PaymentOfEvent(e) : r.status = HandledStatus(EventType(e))

\* The request stored its event and its handler has completed.
Handled(h) ==
  /\ hpc[h] = "done" /\ hookStatus[h] = 200
  /\ \E r \in webhook_events : r.id = h

\* C19: when two events of one payment have both been handled, the payment
\* has the status of the event that arrived last.
C19_ArrivalOrder ==
  \A h, g \in Hooks :
    (/\ h < g /\ Handled(h) /\ Handled(g)
     /\ EventPaymentId(webhookData[h]) = EventPaymentId(webhookData[g])
     /\ HandledStatus(EventType(webhookData[g])) # "") =>
      \A r \in PaymentOfEvent(webhookData[g]) :
        r.status = HandledStatus(EventType(webhookData[g]))

\* C20: the handler of a payment.succeeded, payment.failed or payment.refunded
\* event sets the status of the payment with the event's payment id to
\* succeeded, failed or refunded, and leaves every other payment as it is.
C20_EventRouting ==
  [][\A h \in Hooks :
       (hpc[h] = "process" /\ hpc'[h] \in {"audit", "markProcessed"}) =>
         LET type == EventType(webhookData[h])
             status == CASE type = "payment.succeeded" -> "succeeded"
                         [] type = "payment.failed" -> "failed"
                         [] type = "payment.refunded" -> "refunded"
                         [] OTHER -> ""
         IN status # "" =>
              payments' =
                {IF r.external_payment_id = EventPaymentId(webhookData[h])
                   THEN [r EXCEPT !.status = status] ELSE r : r \in payments}]_vars

\* C20 witness: a payment.refunded event has been handled: its payment, which
\* the gateway had left failed, is refunded and the other payment is untouched.
C20_Witness ==
  \E h \in Hooks :
    /\ hpc[h] = "markProcessed"
    /\ EventType(webhookData[h]) = "payment.refunded"
    /\ gatewayResponse[1] = "failed"
    /\ \A r \in payments :
         r.status = IF r.external_payment_id = EventPaymentId(webhookData[h])
                      THEN "refunded" ELSE "succeeded"
    /\ Cardinality(payments) = 2

\* The request stored its event (the event was new) and has returned.
StoredAndDone(h) ==
  /\ hpc[h] = "done"
  /\ \E r \in webhook_events : r.id = h

UnknownType(e) ==
  EventType(e) \notin {"payment.succeeded", "payment.failed", "payment.refunded"}

C22_EventHasDelivery ==
  \A r \in webhook_events :
    hpc[r.id] = "done" =>
      \E i \in DeliveryIds : webhook_deliveries[i].event_id = r.event_id

\* ------------------------------------------------------------ validation

\* The request of call p carried a missing, zero or negative amount.
BadAmount(p) == p \in Arrived /\ requestBody[p].amount_cents <= 0

\* C27: a request whose amount is missing, zero or negative is answered 400
\* "Invalid amount" and writes nothing; as long as only such requests have
\* arrived there is no ledger row, no payment row and no transaction row, so
\* the idempotency key they carried is still unused.
C27_InvalidAmountNoSideEffects ==
  /\ \A p \in Calls :
       BadAmount(p) =>
         /\ pc[p] = "done"
         /\ response[p] = Response(400, ErrorBody("Invalid amount"))
         /\ nwrites[p] = 0
  /\ (\A p \in Arrived : BadAmount(p)) =>
       /\ \A k \in Keys : idempotency_keys[k] = NoKeyRow
       /\ payments = {}
       /\ transactions = {}

\* C27 witness: a request with a negative amount was rejected, and a later
\* request with the same key and a valid amount found the key unused and
\* created its payment.
C27_Witness ==
  \E p, q \in Calls :
    /\ p < q
    /\ BadAmount(p) /\ requestBody[p].amount_cents < 0
    /\ idempotencyKey[q] = idempotencyKey[p]
    /\ pc[q] = "done" /\ ~existingKey[q].exists
    /\ response[q].status = 201
    /\ Cardinality(payments) = 1

\* The request of call p passed the amount check and names a currency outside
\* the documented list.
UnsupportedCurrency(p) ==
  /\ p \in Arrived
  /\ ~InvalidAmount(requestBody[p])
  /\ requestBody[p].currency \notin SupportedCurrencies

\* C28: a request in an unsupported currency is answered 400 and writes
\* nothing (stated for runs in which no store call failed), so no payment row
\* carries an unsupported currency.
C28_UnsupportedCurrencyRejected ==
  /\ \A r \in payments : r.currency \in SupportedCurrencies
  /\ \A p \in Calls :
       (UnsupportedCurrency(p) /\ pc[p] = "done" /\ faults = 0) =>
         response[p].status = 400 /\ nwrites[p] = 0

\* ------------------------------------------------------------ replay status

\* Call p replayed the stored response of a request that created its payment.
ReplayedSuccess(p) ==
  /\ pc[p] = "done"
  /\ SawStoredResponse(p) /\ ~existingKey[p].locked
  /\ existingKey[p].response.kind = "payment"

\* C29: a call that creates a new payment is answered 201, and a replay of a
\* request that had completed successfully is answered 200 with the stored body.
C29_ReplayAnswered200 ==
  \A p \in Calls :
    /\ (pc[p] = "done" /\ response[p].body.kind = "payment" /\ ~ReplayedSuccess(p)) =>
         response[p].status = 201
    /\ ReplayedSuccess(p) => response[p] = Response(200, existingKey[p].response)

\* ------------------------------------------------------------ audit writes

\* The step that follows the audit write, failed or not.
AuditStep ==
  /\ \A p \in Calls :
       (pc[p] = "audit" /\ pc'[p] # "audit") =>
         /\ pc'[p] = "release"
         /\ UNCHANGED <<payments, idempotency_keys, transactions>>
  /\ \A h \in Hooks :
       (hpc[h] = "audit" /\ hpc'[h] # "audit") =>
         /\ hpc'[h] = "markProcessed"
         /\ UNCHANGED <<payments, webhook_events, webhook_deliveries>>

\* The outcome of an operation whose primary writes succeeded.
AuditOutcome ==
  /\ \A p \in Calls :
       (pc[p] = "done" /\ \E t \in transactions : t.payment_id = p) =>
         response[p] =
           Response(201, PaymentBody(p, gatewayResponse[p], requestBody[p].amount_cents))
  /\ \A h \in Hooks :
       hpc[h] = "done" =>
         /\ hookStatus[h] = 200
         /\ \A r \in webhook_events : r.id = h => r.processed
         /\ delivery[h] # 0
         /\ webhook_deliveries[delivery[h]].status = "delivered"
         /\ webhook_deliveries[delivery[h]].next_attempt_at = NoTime

\* C30: a failed audit write changes nothing but the audit log: the payments
\* handler goes on to store and return its 201, the webhook handler goes on to
\* mark the event processed and the delivery delivered and answers 200; no
\* payment, ledger, transaction, event or delivery row is written differently,
\* and the delivery is not marked failed or scheduled for a retry.
C30_AuditFailureIgnored == []AuditOutcome /\ [][AuditStep]_vars

\* C30 witness: the audit write of the webhook handler failed after the payment
\* update had succeeded; the request was answered 200, its delivery is
\* delivered and the payment the gateway had left failed is succeeded.
C30_Witness ==
  /\ hpc[1] = "done" /\ hookStatus[1] = 200
  /\ faults = 1
  /\ ~\E r \in audit_logs : r.by = <<"hook", 1>>
  /\ \E r \in audit_logs : r.by = <<"call", 1>>
  /\ webhook_deliveries[delivery[1]].status = "delivered"
  /\ gatewayResponse[1] = "failed"
  /\ \E r \in payments : r.id = 1 /\ r.status = "succeeded"

\* ------------------------------------------------------------ reconciliation

Range(q) == {q[i] : i \in DOMAIN q}

\* The payments among `rows` that agree with the record in amount and id.
Candidates(record, rows) == {p \in rows : amountMatch(record, p) /\ idMatch(record, p)}

\* Run s went through its loop and no store call failed.
Completed(s) ==
  /\ rpc[s] = "done" /\ faults = 0
  /\ lastRunSummary[s] # NoSummary

\* C23: a record is matched only with a payment of its uploader that agrees
\* with it in amount and in external id, an unmatched record has no matched
\* payment, and after a run every record it selected for which such a payment
\* was among the payments it read is matched.
C23_MatchExactness ==
  /\ \A i \in RecordIds :
       LET r == reconciliation_records[i]
       IN /\ r.status = "matched" =>
               \E p \in Candidates(r, payments) :
                 p.id = r.matched_payment_id /\ p.user_id = r.uploaded_by
          /\ r.status = "unmatched" => r.matched_payment_id = 0
  /\ \A s \in Runs :
       Completed(s) =>
         \A i \in Range(unmatchedRecords[s]) :
           Candidates(reconciliation_records[i], Range(userPayments[s])) # {} =>
             reconciliation_records[i].status = "matched"

\* C24: when several payments agree with a record, the payment the run
\* matches it with is the most recently created of them.
C24_MostRecentCandidate ==
  \A s \in Runs : \A k \in DOMAIN matchedWith[s] :
    matchedWith[s][k] # 0 =>
      \A p, q \in Candidates(reconciliation_records[unmatchedRecords[s][k]],
                              Range(userPayments[s])) :
        p.id = matchedWith[s][k] => q.created_at <= p.created_at

\* A step of run s.
RunStep(s) == rpc'[s] # rpc[s] \/ matchedWith'[s] # matchedWith[s]

\* C25: a step of a match run leaves payments as it is, and the only rows of
\* reconciliation_records it changes are records the run had selected as
\* unmatched records of its user, in status and matched_payment_id only.
C25_OnlyOwnRecordsWritten ==
  [][\A s \in Runs :
       RunStep(s) =>
         /\ payments' = payments
         /\ \A i \in RecordIds :
              reconciliation_records'[i] # reconciliation_records[i] =>
                /\ reconciliation_records[i].uploaded_by = user[s]
                /\ i \in Range(unmatchedRecords[s])
                /\ reconciliation_records'[i] =
                     [reconciliation_records[i] EXCEPT
                        !.status = "matched",
                        !.matched_payment_id = reconciliation_records'[i].matched_payment_id]]_vars

\* C25 witness: a run of u1 has matched a record of u1 with a payment while a
\* record of u2 with the same amount and id is untouched, and the payments are
\* as they were created.
C25_Witness ==
  /\ \E s \in Runs : rpc[s] = "done" /\ user[s] = "u1" /\ matched[s] = 1
  /\ reconciliation_records[1].status = "matched"
  /\ reconciliation_records[1].matched_payment_id = 1
  /\ reconciliation_records[2] = Record("u2", "PAY_1", 100)
  /\ payments = {UserPayment(1, "u1", "PAY_1", 100), UserPayment(2, "u2", "PAY_2", 100)}

\* C26: a record is matched only after some run found a payment for it, and
\* a record that an earlier run left unmatched for want of a payment is
\* matched once a later run that selected it and read such a payment is done.
C26_UnmatchedStaysEligible ==
  /\ \A i \in RecordIds :
       reconciliation_records[i].status = "matched" =>
         \E s \in Runs : \E k \in DOMAIN matchedWith[s] :
           unmatchedRecords[s][k] = i /\ matchedWith[s][k] # 0
  /\ \A s, t \in Runs : \A i \in RecordIds :
       (/\ s < t /\ Completed(s) /\ Completed(t)
        /\ i \in Range(unmatchedRecords[s])
        /\ Candidates(reconciliation_records[i], Range(userPayments[s])) = {}
        /\ i \in Range(unmatchedRecords[t])
        /\ Candidates(reconciliation_records[i], Range(userPayments[t])) # {}) =>
         reconciliation_records[i].status = "matched"

\* ------------------------------------------------------------ ingestion outcomes

\* The event row the request of h stored.
EventOf(h) == {r \in webhook_events : r.id = h}

Due(row) ==
  /\ row.status = "failed"
  /\ row.next_attempt_at # NoTime
  /\ row.next_attempt_at <= now

PaymentOf(p) == {r \in payments : r.id = p}

\* C33: when CreatePayment stores a 201 response under its key and returns it,
\* the status in the response is the status of the created payments row at
\* that moment, and it is succeeded or failed.
C33_ResponseAgreesWithRow ==
  [][\A p \in Calls :
       (/\ pc[p] = "release" /\ pc'[p] = "done"
        /\ response'[p].status = 201
        /\ idempotency_keys'[idempotencyKey[p]].status_code = 201
        /\ idempotency_keys'[idempotencyKey[p]].response = response'[p].body) =>
         /\ PaymentOf(p)' # {}
         /\ \A r \in PaymentOf(p)' :
              /\ r.status = response'[p].body.status
              /\ r.status \in {"succeeded", "failed"}]_vars

\* ------------------------------------------------------------ reconciliation summary

\* The records whose stored status goes from unmatched to matched in this step.
NewlyMatched ==
  {i \in RecordIds :
     /\ reconciliation_records[i].status = "unmatched"
     /\ reconciliation_records'[i].status = "matched"}

\* C34: the summary of a run over N selected records has total_records = N and
\* matched + unmatched = N, and the run counts a record as matched exactly
\* when the step stores the change of its status from unmatched to matched
\* (so that matched is the number of records the run has changed), here where
\* the policies of the table let a user update the records.
C34_SummaryConsistent ==
  /\ [](\A s \in Runs :
          lastRunSummary[s] # NoSummary =>
            /\ lastRunSummary[s].total_records = Len(unmatchedRecords[s])
            /\ lastRunSummary[s].matched + lastRunSummary[s].unmatched =
                 Len(unmatchedRecords[s])
            /\ lastRunSummary[s].matched = matched[s])
  /\ [][\A s \in Runs :
          (rpc[s] = "match" /\ matchedWith'[s] # matchedWith[s] /\ recordUpdatePolicy) =>
            matched'[s] = matched[s] + Cardinality(NewlyMatched)]_vars

\* ------------------------------------------------------------ delivery records

\* The stored event a delivery row belongs to.
EventOfDelivery(i) ==
  {r \in webhook_events : r.event_id = webhook_deliveries[i].event_id}

\* C35: a delivery with status delivered belongs to an event with
\* processed = true, whether it was delivered at ingestion or by a retry run.
C35_DeliveredImpliesProcessed ==
  \A i \in DeliveryIds :
    webhook_deliveries[i].status = "delivered" =>
      /\ EventOfDelivery(i) # {}
      /\ \A r \in EventOfDelivery(i) : r.processed

\* C36: in every state, a delivery with status failed has a next_attempt_at
\* and fewer than 5 attempts.
C36_FailedAlwaysSchedulable ==
  \A i \in DeliveryIds :
    webhook_deliveries[i].status = "failed" =>
      /\ webhook_deliveries[i].next_attempt_at # NoTime
      /\ webhook_deliveries[i].attempts < 5

\* C37: attempts of a delivery starts at 1, never decreases, grows by at most
\* one in a step and by no more than the number of failed attempts, and never
\* exceeds 5.
C37_AttemptsMonotoneBounded ==
  /\ [](\A i \in DeliveryIds :
          /\ webhook_deliveries[i].attempts >= 1
          /\ webhook_deliveries[i].attempts <= 5
          /\ webhook_deliveries[i].attempts <= 1 + webhook_deliveries[i].failures)
  /\ [][\A i \in DOMAIN webhook_deliveries' :
          IF i \in DeliveryIds
            THEN /\ webhook_deliveries'[i].attempts >= webhook_deliveries[i].attempts
                 /\ webhook_deliveries'[i].attempts <= webhook_deliveries[i].attempts + 1
            ELSE webhook_deliveries'[i].attempts = 1]_vars

\* ------------------------------------------------------------ error outcomes

\* The response of the catch block after a failed payment insert.
InsertFailed == Response(400, ErrorBody("Failed to create payment"))

\* C38: a call whose payment insert failed after it took the lock stores the
\* error body with status 400 under its key, unlocks the row and returns 400;
\* and a call with the same key and body that arrives after that 400 was
\* stored and returned is answered the same 400 and creates no payment.
C38_ErrorOutcomeBoundToKey ==
  /\ [][\A p \in Calls :
          (pc[p] = "catch" /\ pc'[p] = "done" /\ faults' = faults) =>
            /\ response'[p] = InsertFailed
            /\ idempotency_keys'[idempotencyKey[p]].response = InsertFailed.body
            /\ idempotency_keys'[idempotencyKey[p]].status_code = 400
            /\ ~idempotency_keys'[idempotencyKey[p]].locked]_vars
  /\ [](\A q \in Calls :
          (pc[q] \notin {"idle", "crashed"} /\ priorReturned[q] = InsertFailed) =>
            /\ PaymentOf(q) = {}
            /\ pc[q] = "done" => response[q] = InsertFailed)
====
